---- MODULE Spec2Model ----
(***************************************************************************)
(* Model of .github/scripts/pii-scanner.py: the PII scanner for markdown   *)
(* documentation.  Strings are sequences of one-character strings, so that *)
(* regular-expression matching, line splitting, stripping and the baseline *)
(* signature are computed character by character as the script does.       *)
(***************************************************************************)
EXTENDS Integers, Sequences, FiniteSets, TLC

(***************************************************************************)
(* Characters and the character classes of Python's re module.             *)
(***************************************************************************)
LowerSeq ==
  <<"a", "b", "c", "d", "e", "f", "g", "h", "i", "j", "k", "l", "m",
    "n", "o", "p", "q", "r", "s", "t", "u", "v", "w", "x", "y", "z">>

UpperSeq ==
  <<"A", "B", "C", "D", "E", "F", "G", "H", "I", "J", "K", "L", "M",
    "N", "O", "P", "Q", "R", "S", "T", "U", "V", "W", "X", "Y", "Z">>

Lower == {LowerSeq[i] : i \in 1..Len(LowerSeq)}

Upper == {UpperSeq[i] : i \in 1..Len(UpperSeq)}

Digit == {"0", "1", "2", "3", "4", "5", "6", "7", "8", "9"}

\* \w: letters, digits and the underscore
WordChar == Lower \cup Upper \cup Digit \cup {"_"}

\* \s
Space == {" ", "\t", "\n", "\r", "\f"}

ToLower == [c \in Upper |-> LowerSeq[CHOOSE i \in 1..Len(UpperSeq) : UpperSeq[i] = c]]

\* re.IGNORECASE compares characters after case folding
Fold(c) == IF c \in Upper THEN ToLower[c] ELSE c

(***************************************************************************)
(* Regular expressions as syntax trees, and the backtracking matcher.      *)
(* A node is one of                                                        *)
(*   [k |-> "set", s |-> S]            one character of the (folded) set S *)
(*   [k |-> "wb"]                      \b                                  *)
(*   [k |-> "seq", xs |-> <<..>>]      concatenation                       *)
(*   [k |-> "rep", x, lo, hi]          greedy x{lo,hi}; hi = -1: no limit  *)
(***************************************************************************)
Cls(S) == [k |-> "set", s |-> {Fold(c) : c \in S}]

Chr(c) == Cls({c})

WB == [k |-> "wb"]

Cat(xs) == [k |-> "seq", xs |-> xs]

Rep(x, lo, hi) == [k |-> "rep", x |-> x, lo |-> lo, hi |-> hi]

Opt(x) == Rep(x, 0, 1)

Plus(x) == Rep(x, 1, -1)

\* a literal string: each character in turn
Lit(str) == Cat([i \in 1..Len(str) |-> Chr(str[i])])

IsWordAt(s, i) == i >= 1 /\ i <= Len(s) /\ s[i] \in WordChar

RECURSIVE Ends(_, _, _)
RECURSIVE EndsSeq(_, _, _, _)
RECURSIVE EndsRep(_, _, _, _)

\* The positions at which a match of r that starts at position i of s can
\* end, in the order in which the backtracking engine tries them: the head
\* is the match the engine reports.
Ends(r, s, i) ==
  CASE r.k = "set" -> IF i <= Len(s) /\ Fold(s[i]) \in r.s THEN <<i + 1>> ELSE <<>>
    [] r.k = "wb"  -> IF IsWordAt(s, i - 1) # IsWordAt(s, i) THEN <<i>> ELSE <<>>
    [] r.k = "seq" -> EndsSeq(r.xs, 1, s, i)
    [] r.k = "rep" -> EndsRep(r, 0, s, i)

EndsSeq(xs, k, s, i) ==
  IF k > Len(xs) THEN <<i>>
  ELSE LET js == Ends(xs[k], s, i)
           F[n \in 0..Len(js)] ==
             IF n = 0 THEN <<>> ELSE F[n - 1] \o EndsSeq(xs, k + 1, s, js[n])
       IN  F[Len(js)]

\* greedy repetition: one more iteration is tried before stopping
EndsRep(r, n, s, i) ==
  LET js == IF r.hi = -1 \/ n < r.hi THEN Ends(r.x, s, i) ELSE <<>>
      F[m \in 0..Len(js)] ==
        IF m = 0 THEN <<>>
        ELSE F[m - 1] \o (IF js[m] > i THEN EndsRep(r, n + 1, s, js[m]) ELSE <<>>)
  IN  F[Len(js)] \o (IF n >= r.lo THEN <<i>> ELSE <<>>)

RECURSIVE FindFrom(_, _, _)
\* re.finditer continues from position pos: the leftmost position at which
\* a match starts, the match the engine reports there, then the scan
\* resumes where that match ended (one further on after an empty match)
FindFrom(p, s, pos) ==
  LET starts == {i \in pos..(Len(s) + 1) : Ends(p, s, i) # <<>>}
  IN  IF starts = {} THEN <<>>
      ELSE LET from == CHOOSE i \in starts : \A j \in starts : i <= j
               to == Ends(p, s, from)[1]
           IN  <<[from |-> from, to |-> to]>>
                 \o FindFrom(p, s, IF to = from THEN from + 1 ELSE to)

\* re.finditer(pattern, line, re.IGNORECASE): the matches, as spans
finditer(p, s) == FindFrom(p, s, 1)

\* re.search(pattern, text, re.IGNORECASE) finds a match
search(p, s) == \E pos \in 1..(Len(s) + 1) : Ends(p, s, pos) # <<>>

\* match.group()
Group(s, m) == SubSeq(s, m.from, m.to - 1)

(***************************************************************************)
(* PII_PATTERNS and ALLOWED_PATTERNS                                       *)
(***************************************************************************)
AlNum == Lower \cup Upper \cup Digit

PhoneSep == {"-", "."} \cup Space

\* \b[A-Za-z0-9._%+-]+@[A-Za-z0-9.-]+\.[A-Z|a-z]{2,}\b
EmailPattern ==
  Cat(<<WB, Plus(Cls(AlNum \cup {".", "_", "%", "+", "-"})), Chr("@"),
        Plus(Cls(AlNum \cup {".", "-"})), Chr("."),
        Rep(Cls(Upper \cup Lower \cup {"|"}), 2, -1), WB>>)

\* (\+1[-.\s]?)?\(?([0-9]{3})\)?[-.\s]?([0-9]{3})[-.\s]?([0-9]{4})
UsPhonePattern ==
  Cat(<<Opt(Cat(<<Chr("+"), Chr("1"), Opt(Cls(PhoneSep))>>)),
        Opt(Chr("(")), Rep(Cls(Digit), 3, 3), Opt(Chr(")")),
        Opt(Cls(PhoneSep)), Rep(Cls(Digit), 3, 3),
        Opt(Cls(PhoneSep)), Rep(Cls(Digit), 4, 4)>>)

\* \b\d{3}-\d{2}-\d{4}\b
SsnPattern ==
  Cat(<<WB, Rep(Cls(Digit), 3, 3), Chr("-"), Rep(Cls(Digit), 2, 2), Chr("-"),
        Rep(Cls(Digit), 4, 4), WB>>)

\* \b(?:\d{4}[-\s]?){3}\d{4}\b
CreditCardPattern ==
  Cat(<<WB, Rep(Cat(<<Rep(Cls(Digit), 4, 4), Opt(Cls({"-"} \cup Space))>>), 3, 3),
        Rep(Cls(Digit), 4, 4), WB>>)

\* the dictionary in insertion order, which is the order .items() iterates in
PII_PATTERNS ==
  <<[type |-> <<"e", "m", "a", "i", "l">>, pattern |-> EmailPattern],
    [type |-> <<"u", "s", "_", "p", "h", "o", "n", "e">>, pattern |-> UsPhonePattern],
    [type |-> <<"s", "s", "n">>, pattern |-> SsnPattern],
    [type |-> <<"c", "r", "e", "d", "i", "t", "_", "c", "a", "r", "d">>,
     pattern |-> CreditCardPattern]>>

ALLOWED_PATTERNS ==
  <<Lit(<<"e", "x", "a", "m", "p", "l", "e", "@", "e", "x", "a", "m", "p", "l", "e", ".", "c", "o", "m">>),
    Lit(<<"t", "e", "s", "t", "@", "t", "e", "s", "t", ".", "c", "o", "m">>),
    Lit(<<"u", "s", "e", "r", "@", "d", "o", "m", "a", "i", "n", ".", "c", "o", "m">>),
    Lit(<<"+", "1", "2", "3", "4", "5", "6", "7", "8", "9", "0">>),
    Cat(<<Lit(<<"+", "1", "5", "5", "5">>), Rep(Cls(Digit), 7, 7)>>),
    Lit(<<"1", "2", "3", "-", "4", "5", "6", "-", "7", "8", "9", "0">>)>>

is_allowed_pattern(text) ==
  \E a \in 1..Len(ALLOWED_PATTERNS) : search(ALLOWED_PATTERNS[a], text)

(***************************************************************************)
(* scan_file                                                               *)
(***************************************************************************)
\* content.split('\n'): the pieces between the newlines
SplitLines(content) ==
  LET nl == {i \in 1..Len(content) : content[i] = "\n"}
      \* the position of the k-th newline; 0 before the first piece and
      \* Len(content) + 1 after the last
      at(k) == IF k = 0 THEN 0
               ELSE IF k > Cardinality(nl) THEN Len(content) + 1
               ELSE CHOOSE i \in nl : Cardinality({j \in nl : j < i}) = k - 1
  IN  [k \in 1..(Cardinality(nl) + 1) |-> SubSeq(content, at(k - 1) + 1, at(k) - 1)]

RECURSIVE LStrip(_)
LStrip(s) == IF s # <<>> /\ Head(s) \in Space THEN LStrip(Tail(s)) ELSE s

RECURSIVE RStrip(_)
RStrip(s) ==
  IF s # <<>> /\ s[Len(s)] \in Space THEN RStrip(SubSeq(s, 1, Len(s) - 1)) ELSE s

\* line.strip()
Strip(s) == RStrip(LStrip(s))

ContextMax == 100

\* line.strip()[:100]
Context(line) ==
  LET t == Strip(line) IN IF Len(t) > ContextMax THEN SubSeq(t, 1, ContextMax) ELSE t
\* MatchViolations with the context taken from the match onwards instead of
\* from the whole line
MatchViolations_context_from_match(path, line_num, line, pii) ==
  LET ms == finditer(pii.pattern, line)
      F[n \in 0..Len(ms)] ==
        IF n = 0 THEN <<>>
        ELSE LET matched_text == Group(line, ms[n])
             IN  IF is_allowed_pattern(matched_text) THEN F[n - 1]
                 ELSE Append(F[n - 1],
                        [file |-> path, line |-> line_num, type |-> pii.type,
                         text |-> matched_text,
                         context |-> Context(SubSeq(line, ms[n].from, Len(line)))])
  IN  F[Len(ms)]

\* the violations one pattern yields on one line: a match is kept unless
\* its text is allowed
MatchViolations(path, line_num, line, pii) ==
  LET ms == finditer(pii.pattern, line)
      F[n \in 0..Len(ms)] ==
        IF n = 0 THEN <<>>
        ELSE LET matched_text == Group(line, ms[n])
             IN  IF is_allowed_pattern(matched_text) THEN F[n - 1]
                 ELSE Append(F[n - 1],
                        [file |-> path, line |-> line_num, type |-> pii.type,
                         text |-> matched_text, context |-> Context(line)])
  IN  F[Len(ms)]

\* the violations of one line: every pattern in turn
LineViolations(path, line_num, line) ==
  LET F[n \in 0..Len(PII_PATTERNS)] ==
        IF n = 0 THEN <<>>
        ELSE F[n - 1] \o MatchViolations(path, line_num, line, PII_PATTERNS[n])
  IN  F[Len(PII_PATTERNS)]
\* ContentViolations with enumerate() left at its default start of 0
ContentViolations_zero_based(path, content) ==
  LET lines == SplitLines(content)
      F[n \in 0..Len(lines)] ==
        IF n = 0 THEN <<>> ELSE F[n - 1] \o LineViolations(path, n - 1, lines[n])
  IN  F[Len(lines)]

\* the loop over enumerate(content.split('\n'), 1)
ContentViolations(path, content) ==
  LET lines == SplitLines(content)
      F[n \in 0..Len(lines)] ==
        IF n = 0 THEN <<>> ELSE F[n - 1] \o LineViolations(path, n, lines[n])
  IN  F[Len(lines)]
\* scan_file keeping what was matched in the part of the file that was read
\* before the error
scan_file_keeps_partial(f) == ContentViolations(f.path, f.content)

\* scan_file(file_path): a file that cannot be opened, read or decoded
\* raises inside the try block before anything is appended
scan_file(f) ==
  IF f.read = "ok" THEN ContentViolations(f.path, f.content) ELSE <<>>

(***************************************************************************)
(* The baseline file .github/pii-baseline.json.  A file is absent, or      *)
(* holds text that is not JSON, or holds a JSON array of objects; strings  *)
(* and numbers are kept in their JSON text form (escaped characters,       *)
(* decimal digits), which json.dump writes and json.load reads back.       *)
(***************************************************************************)
DigitSeq == <<"0", "1", "2", "3", "4", "5", "6", "7", "8", "9">>

RECURSIVE ToDec(_)
\* str(n) for n >= 0
ToDec(n) == IF n < 10 THEN <<DigitSeq[n + 1]>> ELSE Append(ToDec(n \div 10), DigitSeq[(n % 10) + 1])

DigitVal(c) == (CHOOSE i \in 1..10 : DigitSeq[i] = c) - 1

RECURSIVE ParseDec(_)
\* int(digits)
ParseDec(ds) ==
  IF Len(ds) = 1 THEN DigitVal(ds[1])
  ELSE 10 * ParseDec(SubSeq(ds, 1, Len(ds) - 1)) + DigitVal(ds[Len(ds)])

RECURSIVE JsonEscape(_)
\* the body of a JSON string literal as json.dump writes it
JsonEscape(s) ==
  IF s = <<>> THEN <<>>
  ELSE (CASE Head(s) = "\"" -> <<"\\", "\"">>
          [] Head(s) = "\\" -> <<"\\", "\\">>
          [] Head(s) = "\t" -> <<"\\", "t">>
          [] OTHER -> <<Head(s)>>) \o JsonEscape(Tail(s))

RECURSIVE JsonUnescape(_)
\* the string json.load reads from the body of a JSON string literal
JsonUnescape(s) ==
  IF s = <<>> THEN <<>>
  ELSE IF Head(s) = "\\" /\ Len(s) >= 2
       THEN <<IF s[2] = "t" THEN "\t" ELSE s[2]>> \o JsonUnescape(SubSeq(s, 3, Len(s)))
       ELSE <<Head(s)>> \o JsonUnescape(Tail(s))

\* json.dump of one violation
DumpViolation(v) ==
  [file |-> JsonEscape(v.file), line |-> ToDec(v.line), type |-> JsonEscape(v.type),
   text |-> JsonEscape(v.text), context |-> JsonEscape(v.context)]

\* json.load of one object
LoadViolation(o) ==
  [file |-> JsonUnescape(o.file), line |-> ParseDec(o.line), type |-> JsonUnescape(o.type),
   text |-> JsonUnescape(o.text), context |-> JsonUnescape(o.context)]

AbsentFile == [kind |-> "absent"]

MalformedFile == [kind |-> "malformed"]

JsonFile(violations) ==
  [kind |-> "json", items |-> [i \in 1..Len(violations) |-> DumpViolation(violations[i])]]
\* load_baseline treating a file that is not JSON as an empty baseline
LoadRaises_never(file) == FALSE

\* load_baseline raises: the file exists and json.load rejects it
LoadRaises(file) == file.kind = "malformed"

\* load_baseline(): [] when the file does not exist, else the parsed list
load_baseline(file) ==
  IF file.kind = "json" THEN [i \in 1..Len(file.items) |-> LoadViolation(file.items[i])]
  ELSE <<>>
\* save_baseline losing the last violation
save_baseline_drops_last(violations) ==
  JsonFile(SubSeq(violations, 1, Len(violations) - 1))

\* save_baseline(violations): the file's new content
save_baseline(violations) == JsonFile(violations)

\* f"{v['file']}:{v['line']}:{v['type']}:{v['text']}"
Signature(v) == v.file \o <<":">> \o ToDec(v.line) \o <<":">> \o v.type \o <<":">> \o v.text

(***************************************************************************)
(* Document discovery: os.walk('.') with directory pruning                 *)
(***************************************************************************)
StartsWith(s, pre) == Len(s) >= Len(pre) /\ SubSeq(s, 1, Len(pre)) = pre

EndsWith(s, suf) == Len(s) >= Len(suf) /\ SubSeq(s, Len(s) - Len(suf) + 1, Len(s)) = suf

NodeModules == <<"n", "o", "d", "e", "_", "m", "o", "d", "u", "l", "e", "s">>

\* a directory os.walk does not descend into
Pruned(d) == StartsWith(d, <<".">>) \/ d = NodeModules

\* a file of the tree that ends up in md_files
Discovered(e) ==
  /\ \A i \in 1..Len(e.dirs) : ~Pruned(e.dirs[i])
  /\ EndsWith(e.name, <<".", "m", "d">>)

RECURSIVE JoinDirs(_)
JoinDirs(dirs) == IF dirs = <<>> THEN <<>> ELSE Head(dirs) \o <<"/">> \o JoinDirs(Tail(dirs))

\* str(Path(root) / file)
PathOf(e) == JoinDirs(e.dirs) \o e.name

RECURSIVE Walk(_)
\* md_files, in the order of the walk
Walk(t) ==
  IF t = <<>> THEN <<>>
  ELSE (IF Discovered(Head(t))
        THEN <<[path |-> PathOf(Head(t)), read |-> Head(t).read, content |-> Head(t).content]>>
        ELSE <<>>) \o Walk(Tail(t))

(***************************************************************************)
(* The state of one run of main()                                          *)
(***************************************************************************)
VARIABLES
  tree,                 \* the files under the working directory, in walk order
  argv,                 \* sys.argv
  baselineFile,         \* the content of .github/pii-baseline.json
  baseline0,            \* its content when the run started
  writes,               \* how many times the run wrote the baseline file
  pc,                   \* where main() is
  md_files,
  idx,                  \* position of the scan loop in md_files
  all_violations,
  baseline_violations,
  baseline_signatures,
  new_violations,
  out,                  \* what was printed, in order
  exit_status           \* the process exit status; -1 while running

vars ==
  <<tree, argv, baselineFile, baseline0, writes, pc, md_files, idx, all_violations,
    baseline_violations, baseline_signatures, new_violations, out, exit_status>>

UpdateFlag == "--update-baseline"
\* the baseline update done without looking at sys.argv
UpdateRequested_always(args) == TRUE

\* '--update-baseline' in sys.argv
UpdateRequested(args) == \E i \in 1..Len(args) : args[i] = UpdateFlag

\* violation in new_violations: list membership, by equality of the dicts
InList(v, list) == \E i \in 1..Len(list) : list[i] = v
\* the membership test inverted
IsNew_inverted(v, signatures) == Signature(v) \in signatures

\* the signature is not in baseline_signatures
IsNew(v, signatures) == Signature(v) \notin signatures

RECURSIVE NewOf(_, _)
\* the loop that fills new_violations
NewOf(violations, signatures) ==
  IF violations = <<>> THEN <<>>
  ELSE (IF IsNew(Head(violations), signatures) THEN <<Head(violations)>> ELSE <<>>)
         \o NewOf(Tail(violations), signatures)
\* the tag decided by the file alone
StatusTag_by_file(v, new) ==
  IF \E i \in 1..Len(new) : new[i].file = v.file THEN "NEW" ELSE "EXISTING"

\* the NEW/EXISTING tag of the listing
StatusTag(v, new) == IF InList(v, new) THEN "NEW" ELSE "EXISTING"

\* the listing printed when all_violations is not empty
Listing(violations, new) ==
  IF violations = <<>> THEN <<>>
  ELSE <<[k |-> "total", n |-> Len(violations)]>>
         \o [i \in 1..Len(violations) |->
               [k |-> "finding", status |-> StatusTag(violations[i], new),
                file |-> violations[i].file, line |-> violations[i].line,
                type |-> violations[i].type, text |-> violations[i].text]]

\* the failure block: the summary, then each new violation in detail
FailureBlock(new) ==
  <<[k |-> "failure", n |-> Len(new)]>>
    \o [i \in 1..Len(new) |-> [k |-> "detail", v |-> new[i]]]
    \o <<[k |-> "to_fix"]>>

\* the success summary
SuccessLine(violations) ==
  IF violations # <<>> THEN [k |-> "grandfathered", n |-> Len(violations)]
  ELSE [k |-> "none_detected"]

Discover ==
  /\ pc = "discover"
  /\ md_files' = Walk(tree)
  /\ out' = out \o <<[k |-> "scanning"], [k |-> "found", n |-> Len(Walk(tree))]>>
  /\ idx' = 1
  /\ all_violations' = <<>>
  /\ pc' = "scan"
  /\ UNCHANGED <<tree, argv, baselineFile, baseline0, writes, baseline_violations,
                 baseline_signatures, new_violations, exit_status>>

\* one iteration of the loop over md_files
ScanFile ==
  /\ pc = "scan"
  /\ idx <= Len(md_files)
  /\ all_violations' = all_violations \o scan_file(md_files[idx])
  /\ out' = IF md_files[idx].read = "ok" THEN out
            ELSE Append(out, [k |-> "error_scanning", file |-> md_files[idx].path])
  /\ idx' = idx + 1
  /\ UNCHANGED <<tree, argv, baselineFile, baseline0, writes, pc, md_files,
                 baseline_violations, baseline_signatures, new_violations, exit_status>>

\* load_baseline() and the set of signatures; an exception of json.load is
\* not caught: the interpreter prints the traceback and exits with status 1
LoadBaseline ==
  /\ pc = "scan"
  /\ idx > Len(md_files)
  /\ IF LoadRaises(baselineFile)
     THEN /\ pc' = "aborted"
          /\ exit_status' = 1
          /\ out' = Append(out, [k |-> "traceback"])
          /\ UNCHANGED <<baseline_violations, baseline_signatures>>
     ELSE /\ baseline_violations' = load_baseline(baselineFile)
          /\ baseline_signatures' =
               {Signature(load_baseline(baselineFile)[i]) :
                  i \in 1..Len(load_baseline(baselineFile))}
          /\ pc' = "classify"
          /\ UNCHANGED <<out, exit_status>>
  /\ UNCHANGED <<tree, argv, baselineFile, baseline0, writes, md_files, idx,
                 all_violations, new_violations>>

Classify ==
  /\ pc = "classify"
  /\ new_violations' = NewOf(all_violations, baseline_signatures)
  /\ pc' = "report"
  /\ UNCHANGED <<tree, argv, baselineFile, baseline0, writes, md_files, idx,
                 all_violations, baseline_violations, baseline_signatures, out,
                 exit_status>>

Report ==
  /\ pc = "report"
  /\ out' = out \o Listing(all_violations, new_violations)
  /\ pc' = "gate"
  /\ UNCHANGED <<tree, argv, baselineFile, baseline0, writes, md_files, idx,
                 all_violations, baseline_violations, baseline_signatures,
                 new_violations, exit_status>>

\* if new_violations: ... sys.exit(1); otherwise the success summary
Gate ==
  /\ pc = "gate"
  /\ IF new_violations # <<>>
     THEN /\ out' = out \o FailureBlock(new_violations)
          /\ exit_status' = 1
          /\ pc' = "done"
     ELSE /\ out' = Append(out, SuccessLine(all_violations))
          /\ exit_status' = exit_status
          /\ pc' = "update"
  /\ UNCHANGED <<tree, argv, baselineFile, baseline0, writes, md_files, idx,
                 all_violations, baseline_violations, baseline_signatures,
                 new_violations>>

\* the end of main(): the baseline is saved when the flag is given
Update ==
  /\ pc = "update"
  /\ IF UpdateRequested(argv)
     THEN /\ baselineFile' = save_baseline(all_violations)
          /\ writes' = writes + 1
          /\ out' = Append(out, [k |-> "updated"])
     ELSE UNCHANGED <<baselineFile, writes, out>>
  /\ exit_status' = 0
  /\ pc' = "done"
  /\ UNCHANGED <<tree, argv, baseline0, md_files, idx, all_violations,
                 baseline_violations, baseline_signatures, new_violations>>

Next == Discover \/ ScanFile \/ LoadBaseline \/ Classify \/ Report \/ Gate \/ Update

(***************************************************************************)
(* The working directories and baselines the runs start from               *)
(***************************************************************************)
DocsA ==
  <<"i", "n", "t", "r", "o", "\n", "\n", "C", "o", "n", "t", "a", "c", "t", ":", " ", "j", "a",
    "n", "e", ".", "d", "o", "e", "@", "e", "x", "a", "m", "p", "l", "e", ".", "o", "r", "g",
    "\n", "\n", "C", "a", "l", "l", " ", "+", "1", "2", "3", "4", "5", "6", "7", "8", "9", "0",
    "\n">>

TextB ==
  <<"?", " ", "m", "a", "i", "l", " ", "b", "o", "b", "@", "c", "o", "r", "p", ".", "i", "o">>

TextC ==
  <<"a", "@", "b", ".", "c", "o", " ", "a", "@", "b", ".", "c", "o", "\n", " ", "\t", "s", "a",
    "y", " ", "\"", "h", "i", "\"", " ", "t", "o", " ", "A", "@", "B", ".", "c", "o", " ", "\\",
    " ", "+", "1", "5", "5", "5", "1", "2", "3", "4", "5", "6", "7", " ", " ", "\n",
    "s", "e", "e", " ", "e", "x", "a", "m", "p", "l", "e", "@", "e", "x", "a", "m", "p", "l",
    "e", ".", "c", "o", "m", "\n", "S", "S", "N", " ", "1", "2", "3", "-", "4", "5", "-", "6",
    "7", "8", "9", "\n", "c", "a", "r", "d", " ", "1", "2", "3", "4", " ", "5", "6", "7", "8",
    " ", "9", "0", "1", "2", " ", "3", "4", "5", "6">>

TextD ==
  <<"d", "e", "p", "@", "v", "e", "n", "d", "o", "r", ".", "i", "o">>

\* the files a tree is made of
FilePool ==
  <<[dirs |-> <<<<"d", "o", "c", "s">>>>, name |-> <<"a", ".", "m", "d">>,
     read |-> "ok", content |-> DocsA],
    [dirs |-> <<>>, name |-> <<"b", ".", "m", "d">>, read |-> "error", content |-> TextB],
    [dirs |-> <<>>, name |-> <<"c", ".", "m", "d">>, read |-> "ok", content |-> TextC],
    [dirs |-> <<NodeModules>>, name |-> <<"x", ".", "m", "d">>, read |-> "ok",
     content |-> TextD]>>

MaxFiles == 2

\* the sequences of at most n different files of the pool
Trees(n) ==
  {t \in UNION {[1..m -> 1..Len(FilePool)] : m \in 0..n} :
     \A i, j \in DOMAIN t : i # j => t[i] # t[j]}

TreeOf(t) == [i \in DOMAIN t |-> FilePool[t[i]]]

Email == <<"e", "m", "a", "i", "l">>

UsPhone == <<"u", "s", "_", "p", "h", "o", "n", "e">>

JaneDoe ==
  <<"j", "a", "n", "e", ".", "d", "o", "e", "@", "e", "x", "a", "m", "p", "l", "e", ".", "o",
    "r", "g">>

ContactLine ==
  <<"C", "o", "n", "t", "a", "c", "t", ":", " ", "j", "a", "n", "e", ".", "d", "o", "e", "@",
    "e", "x", "a", "m", "p", "l", "e", ".", "o", "r", "g">>

\* violations an earlier run may have recorded
BaselinePool ==
  <<[file |-> <<"d", "o", "c", "s", "/", "a", ".", "m", "d">>, line |-> 3, type |-> Email,
     text |-> JaneDoe, context |-> ContactLine],
    [file |-> <<"d", "o", "c", "s", "/", "a", ".", "m", "d">>, line |-> 3, type |-> Email,
     text |-> JaneDoe, context |-> <<"o", "l", "d", " ", "\"", "t", "e", "x", "t", "\"">>],
    [file |-> <<"c", ".", "m", "d">>, line |-> 1, type |-> Email,
     text |-> <<"a", "@", "b", ".", "c", "o">>,
     context |-> <<"a", "@", "b", ".", "c", "o", " ", "a", "@", "b", ".", "c", "o">>]>>

MaxBaseline == 2

\* the baselines of at most n entries of the pool (an entry may repeat)
Baselines(n) ==
  {b \in UNION {[1..m -> 1..Len(BaselinePool)] : m \in 0..n} :
     \A i, j \in DOMAIN b : i <= j => b[i] <= b[j]}

BaselineOf(b) == JsonFile([i \in DOMAIN b |-> BaselinePool[b[i]]])

BaselineFiles(n) == {AbsentFile, MalformedFile} \cup {BaselineOf(b) : b \in Baselines(n)}

ArgvChoices == {<<"pii-scanner.py">>, <<"pii-scanner.py", UpdateFlag>>}

\* the state when main() is entered
Start(t, args, file) ==
  /\ tree = t
  /\ argv = args
  /\ baselineFile = file
  /\ baseline0 = file
  /\ writes = 0
  /\ pc = "discover"
  /\ md_files = <<>>
  /\ idx = 1
  /\ all_violations = <<>>
  /\ baseline_violations = <<>>
  /\ baseline_signatures = {}
  /\ new_violations = <<>>
  /\ out = <<>>
  /\ exit_status = -1

Init ==
  \E t \in Trees(MaxFiles), args \in ArgvChoices, file \in BaselineFiles(MaxBaseline) :
    Start(TreeOf(t), args, file)

Spec == Init /\ [][Next]_vars

(***************************************************************************)
(* Runs over one document whose content is put together from short pieces, *)
(* for the properties of the matcher itself                                *)
(***************************************************************************)
Pieces ==
  <<<<"a", "@", "b", ".", "c", "o">>,
    <<".", "u", "k">>,
    <<"1", "2", "3", "4", "5", "6", "7", "8", "9", "0">>,
    <<"1">>,
    <<"+">>,
    <<" ">>,
    <<"\n">>>>

MaxPieces == 3

RECURSIVE Glue(_)
Glue(c) == IF c = <<>> THEN <<>> ELSE Pieces[Head(c)] \o Glue(Tail(c))

Contents(n) == {Glue(c) : c \in UNION {[1..m -> 1..Len(Pieces)] : m \in 0..n}}

PieceFile(content) ==
  [dirs |-> <<>>, name |-> <<"t", ".", "m", "d">>, read |-> "ok", content |-> content]

InitLines ==
  \E content \in Contents(MaxPieces), args \in ArgvChoices :
    Start(<<PieceFile(content)>>, args, AbsentFile)

SpecLines == InitLines /\ [][Next]_vars

(***************************************************************************)
(* The baseline round trip: the findings of a scan are saved with          *)
(* save_baseline, then main() runs on the same documents                   *)
(***************************************************************************)
RECURSIVE ScanAll(_)
\* the loop over md_files as a whole
ScanAll(files) == IF files = <<>> THEN <<>> ELSE scan_file(Head(files)) \o ScanAll(Tail(files))

HarnessScan ==
  /\ pc = "harness_scan"
  /\ all_violations' = ScanAll(Walk(tree))
  /\ pc' = "harness_save"
  /\ UNCHANGED <<tree, argv, baselineFile, baseline0, writes, md_files, idx,
                 baseline_violations, baseline_signatures, new_violations, out,
                 exit_status>>

HarnessSave ==
  /\ pc = "harness_save"
  /\ baselineFile' = save_baseline(all_violations)
  /\ baseline0' = save_baseline(all_violations)
  /\ all_violations' = <<>>
  /\ pc' = "discover"
  /\ UNCHANGED <<tree, argv, writes, md_files, idx, baseline_violations,
                 baseline_signatures, new_violations, out, exit_status>>

InitRoundTrip ==
  \E t \in Trees(MaxFiles), args \in ArgvChoices, file \in BaselineFiles(0) :
    /\ tree = TreeOf(t)
    /\ argv = args
    /\ baselineFile = file
    /\ baseline0 = file
    /\ writes = 0
    /\ pc = "harness_scan"
    /\ md_files = <<>>
    /\ idx = 1
    /\ all_violations = <<>>
    /\ baseline_violations = <<>>
    /\ baseline_signatures = {}
    /\ new_violations = <<>>
    /\ out = <<>>
    /\ exit_status = -1

NextRoundTrip == HarnessScan \/ HarnessSave \/ Next

SpecRoundTrip == InitRoundTrip /\ [][NextRoundTrip]_vars

(***************************************************************************)
(* Properties                                                              *)
(***************************************************************************)
\* the signatures of the entries of a baseline file
SignaturesIn(file) ==
  IF file.kind = "json" THEN {Signature(LoadViolation(file.items[i])) : i \in 1..Len(file.items)}
  ELSE {}

\* the identifying tuple of a violation
TupleOf(v) == <<v.file, v.line, v.type, v.text>>

\* the violations whose signature is not in a baseline file
AbsentFrom(violations, file) ==
  SelectSeq(violations, LAMBDA v : Signature(v) \notin SignaturesIn(file))

\* the lines of the listing that show one finding each
FindingLines == SelectSeq(out, LAMBDA e : e.k = "finding")

\* --update-baseline is among the arguments of the run
FlagGiven == UpdateFlag \in {argv[i] : i \in 1..Len(argv)}

\* C1: a run started with --update-baseline and a readable baseline ends,
\* whatever the gate decided, with the baseline file holding exactly the
\* findings of the run, so that a following run finds nothing new.
C1_UpdateSavesWhateverTheGate ==
  (/\ pc \in {"done", "aborted"}
   /\ FlagGiven
   /\ ~LoadRaises(baseline0))
  => /\ pc = "done"
     /\ baselineFile = JsonFile(all_violations)
     /\ AbsentFrom(all_violations, baselineFile) = <<>>

C3_ExampleScenario ==
  (/\ pc = "done"
   /\ tree = <<FilePool[1]>>
   /\ baseline0 \in {AbsentFile, JsonFile(<<>>)})
  => /\ Len(all_violations) = 1
     /\ all_violations[1].type = Email
     /\ all_violations[1].line = 3
     /\ all_violations[1].text = JaneDoe
     /\ new_violations = all_violations
     /\ exit_status = 1

\* C4: when the findings of a scan have been saved with save_baseline, a run
\* of main on the same documents finds every signature in the baseline it
\* loads, has no new finding and ends with status 0.
C4_BaselineRoundTrip ==
  /\ pc \in {"classify", "report", "gate", "update", "done"}
       => \A i \in 1..Len(all_violations) :
            Signature(all_violations[i]) \in baseline_signatures
  /\ pc \in {"report", "gate", "update", "done"} => new_violations = <<>>
  /\ pc # "aborted"
  /\ pc = "done" => exit_status = 0

C4_Witness ==
  /\ pc = "done"
  /\ exit_status = 0
  /\ Len(all_violations) >= 2
  /\ baseline0 = save_baseline(all_violations)
  /\ \E i \in 1..Len(md_files) : md_files[i].read = "error"

\* C5 as stated: no two entries of all_violations carry the same tuple
\* (file, line, type, text).
C5_TuplesUnique ==
  \A i, j \in 1..Len(all_violations) :
    i # j => TupleOf(all_violations[i]) # TupleOf(all_violations[j])

\* C5 as amended: the tuple (file, line, type, text) determines the finding:
\* two entries of all_violations with the same tuple are equal in every field.
\* The list holds the tuple once for each occurrence of the text on the line.
C5_TupleDeterminesFinding ==
  \A i, j \in 1..Len(all_violations) :
    TupleOf(all_violations[i]) = TupleOf(all_violations[j])
      => all_violations[i] = all_violations[j]

C5_Witness ==
  /\ pc = "done"
  /\ \E i, j \in 1..Len(all_violations) :
       i # j /\ TupleOf(all_violations[i]) = TupleOf(all_violations[j])

\* C6: every finding is in new_violations exactly when its signature is
\* absent from the baseline's signatures, and the tag printed for it in the
\* listing is NEW exactly in that case, EXISTING otherwise.
C6_ClassificationAndTags ==
  pc \in {"gate", "update", "done"}
  => /\ Len(FindingLines) = Len(all_violations)
     /\ \A i \in 1..Len(all_violations) :
          LET v == all_violations[i]
              absent == Signature(v) \notin SignaturesIn(baseline0)
          IN  /\ InList(v, new_violations) <=> absent
              /\ FindingLines[i].status = (IF absent THEN "NEW" ELSE "EXISTING")
              /\ TupleOf(v) = <<FindingLines[i].file, FindingLines[i].line,
                                FindingLines[i].type, FindingLines[i].text>>

C6_Witness ==
  /\ pc = "done"
  /\ baseline0 = BaselineOf(<<2, 2>>)
  /\ \E i \in 1..Len(FindingLines) : FindingLines[i].status = "EXISTING"
  /\ \E i \in 1..Len(FindingLines) : FindingLines[i].status = "NEW"

\* a finding of the given type and text on line n of the file
Reported(path, n, type, text) ==
  \E i \in 1..Len(all_violations) :
    /\ all_violations[i].file = path
    /\ all_violations[i].line = n
    /\ all_violations[i].type = type
    /\ all_violations[i].text = text

\* C7 as stated: every substring of a line that matches a pattern and matches
\* no allowed pattern is reported, with the pattern's type and the line's
\* 1-based position.
C7_EveryMatchingSubstringReported ==
  pc = "done"
  => \A f \in 1..Len(md_files) :
       md_files[f].read = "ok"
       => LET lines == SplitLines(md_files[f].content)
          IN  \A n \in 1..Len(lines), k \in 1..Len(PII_PATTERNS) :
                \A i \in 1..Len(lines[n]) :
                  LET es == Ends(PII_PATTERNS[k].pattern, lines[n], i)
                  IN  \A e \in 1..Len(es) :
                        LET text == SubSeq(lines[n], i, es[e] - 1)
                        IN  ~is_allowed_pattern(text)
                              => Reported(md_files[f].path, n, PII_PATTERNS[k].type, text)

\* C7 as amended: every match that the leftmost, non-overlapping scan of a
\* line with a pattern yields (re.finditer) and that matches no allowed
\* pattern is reported, with the pattern's type and the line's 1-based
\* position.
C7_EveryScanMatchReported ==
  pc = "done"
  => \A f \in 1..Len(md_files) :
       md_files[f].read = "ok"
       => LET lines == SplitLines(md_files[f].content)
          IN  \A n \in 1..Len(lines), k \in 1..Len(PII_PATTERNS) :
                LET ms == finditer(PII_PATTERNS[k].pattern, lines[n])
                IN  \A m \in 1..Len(ms) :
                      LET text == SubSeq(lines[n], ms[m].from, ms[m].to - 1)
                      IN  ~is_allowed_pattern(text)
                            => Reported(md_files[f].path, n, PII_PATTERNS[k].type, text)

C7_Witness ==
  /\ pc = "done"
  /\ \E i \in 1..Len(all_violations) :
       all_violations[i].line = 2 /\ all_violations[i].type = UsPhone
  /\ \E i \in 1..Len(all_violations) :
       all_violations[i].line = 1 /\ all_violations[i].type = Email

\* the tree without the files that cannot be read
WithoutFailed(t) == SelectSeq(t, LAMBDA e : e.read = "ok")

\* C8: a document that cannot be read contributes no finding and stops
\* nothing: every document is scanned, and the findings, the classification
\* and the exit status are those of the tree without the failed documents.
C8_ReadErrorsAreSkipped ==
  /\ pc \in {"classify", "aborted", "done"}
       => /\ idx = Len(md_files) + 1
          /\ all_violations = ScanAll(Walk(WithoutFailed(tree)))
  /\ pc = "done"
       => LET expected == ScanAll(Walk(WithoutFailed(tree)))
          IN  /\ new_violations = AbsentFrom(expected, baseline0)
              /\ exit_status = (IF AbsentFrom(expected, baseline0) # <<>> THEN 1 ELSE 0)

C8_Witness ==
  /\ pc = "done"
  /\ Len(md_files) = 2
  /\ md_files[1].read = "error"
  /\ md_files[2].read = "ok"
  /\ all_violations # <<>>
  /\ \E i \in 1..Len(out) : out[i].k = "error_scanning"

\* what the run reports after loading the baseline
ReportKinds == {"total", "finding", "failure", "detail", "to_fix", "grandfathered",
                "none_detected", "updated"}

\* C9: with a baseline file that is not valid JSON the run aborts when the
\* baseline is loaded: nothing is classified, listed or summarised, neither
\* gate outcome is reached and the baseline file is never written, with or
\* without --update-baseline.  An absent baseline file is loaded as the empty
\* list and the run goes on.
C9_MalformedBaselineIsFatal ==
  /\ baseline0 = MalformedFile
       => /\ pc \in {"discover", "scan", "aborted"}
          /\ \A i \in 1..Len(out) : out[i].k \notin ReportKinds
          /\ new_violations = <<>>
          /\ writes = 0
          /\ baselineFile = baseline0
          /\ exit_status \in {-1, 1}
          /\ exit_status = 1 => pc = "aborted"
  /\ baseline0 = AbsentFile
       => /\ pc # "aborted"
          /\ pc \in {"classify", "report", "gate", "update", "done"}
               => baseline_violations = <<>>

C9_Witness ==
  /\ pc = "aborted"
  /\ baseline0 = MalformedFile
  /\ FlagGiven
  /\ all_violations # <<>>

\* C10: the baseline file is written at most once in a run, only when
\* --update-baseline is among the arguments and only after the report and
\* the gate; a run without the flag leaves the file as it found it.
C10_BaselineWrittenOnlyByUpdate ==
  /\ [](~FlagGiven => (baselineFile = baseline0 /\ writes = 0))
  /\ [](writes <= 1)
  /\ [][(writes' # writes \/ baselineFile' # baselineFile)
          => /\ FlagGiven
             /\ writes = 0
             /\ writes' = 1
             /\ pc = "update"
             /\ \E i \in 1..Len(out) : out[i].k \in {"grandfathered", "none_detected"}]_vars

C10_Witness ==
  /\ pc = "done"
  /\ writes = 1
  /\ baselineFile # baseline0

====
